---------------------------- MODULE Spec2Model ----------------------------
(***************************************************************************)
(* Library circulation: Biblioteca (coordinator), Socio (member account),  *)
(* Libro (copy with its reservation queue) and Prestamo (loan).            *)
(*                                                                         *)
(* Time is counted in ticks of half a day, so that instants strictly       *)
(* between two whole days exist.  Every `new Date()` of one operation      *)
(* reads the same instant `now`.                                           *)
(***************************************************************************)
EXTENDS Integers, Sequences, FiniteSets, TLC

(* ------------------------------ bounds -------------------------------- *)

\* Member identifiers offered to the operations: 0..MaxSocioId.
MaxSocioId == 2

\* The clock stops advancing at MaxNow ticks.
MaxNow == 3

\* A renewal is only explored while the new due date stays <= MaxVenc ticks.
MaxVenc == 34

\* Ticks per day (half-day resolution).
TicksPorDia == 2

(* -------------------------- program constants ------------------------- *)

DURACION_DEFAULT == 14

MULTA_POR_DIA == 50

\* Days within which a loan counts as 'por_vencer'.
DIAS_POR_VENCER == 3

\* The value of an omitted optional argument / of reservas[0] on an empty array.
Undefined == -999

IdsSocio == 0..MaxSocioId

Isbns == {"X", "Y"}

\* Durations offered to retirarLibro / renovarPrestamo (days).
Duraciones == {Undefined, -1, 0, 1}

DuracionesCortas == {-1, 1}

RenovacionesCortas == {Undefined, 0}

\* The members and copies of the smaller behaviours.
SociosBase == {0, 1}

SociosUno == {1}

LibrosBase == {"X"}

\* Amounts offered to procesarPagoMulta.
Montos == {-50, 0, 50, 100}

\* The event ids and the capacities offered to crearEvento.
IdsEvento == {1}

Capacidades == {Undefined, 0, 1, 2}

(* ------------------------------ results ------------------------------- *)

Ok == "ok"
NotFound == "NotFound"
Unavailable == "Unavailable"
AlreadyAvailable == "AlreadyAvailable"
AlreadyReserved == "AlreadyReserved"
OutstandingFines == "OutstandingFines"
NotHeld == "NotHeld"
MustReturnFirst == "MustReturnFirst"
ReservationsPending == "ReservationsPending"
InvalidArgument == "InvalidArgument"
Duplicate == "Duplicate"
Full == "Full"
AlreadyEnrolled == "AlreadyEnrolled"

(* ------------------------------- state -------------------------------- *)

VARIABLES
  now,               \* the instant new Date() returns, in ticks
  inventario,        \* Biblioteca.inventario: the ISBNs of the catalogued copies
  socios,            \* Biblioteca.socios: the registered member ids
  reservas,          \* Libro.reservas, per ISBN: queue of member ids
  prestamos,         \* Socio.prestamos, per member: sequence of loans
  multasPendientes,  \* Socio.multasPendientes, per member
  historialLectura,  \* Socio.historialLectura, per member: sequence of ISBNs
  eventos,           \* Biblioteca.eventos, per event id: capacity and participants
  emitidas,          \* the notifications created by the last operation, in order
  ult                \* the last operation: its name, arguments and outcome

core == <<now, inventario, socios, reservas, prestamos, multasPendientes,
          historialLectura, eventos>>

vars == <<now, inventario, socios, reservas, prestamos, multasPendientes,
          historialLectura, emitidas, ult, eventos>>

(* --------------------------- sequence helpers ------------------------- *)

Rango(q) == {q[i] : i \in 1..Len(q)}

\* Array.prototype.indexOf, 1-based; 0 when absent.
IndexOf(q, e) ==
  IF e \in Rango(q) THEN CHOOSE i \in 1..Len(q) : q[i] = e /\ \A j \in 1..(i-1) : q[j] # e
  ELSE 0

\* A slip: pop() instead of splice(i, 1).
SpliceAlFinal(q, i) == SubSeq(q, 1, Len(q) - 1)

\* Array.prototype.splice(i, 1), 1-based.
Splice(q, i) == [j \in 1..(Len(q)-1) |-> IF j < i THEN q[j] ELSE q[j+1]]

\* A slip: Math.floor instead of Math.ceil.
DivEntera(a, b) == a \div b

\* Math.ceil(a / b) for b > 0.
CeilDiv(a, b) == -((-a) \div b)

(* ------------------------------- Prestamo ----------------------------- *)

\* A slip: a day of grace after the due date.
EstaVencidoConGracia(p) == now > p.vencimiento + TicksPorDia

EstaVencido(p) == now > p.vencimiento

\* A slip: the days are counted from the loan date instead of the due date.
DiasVencidoDesdePrestamo(p) ==
  IF ~EstaVencido(p) THEN 0 ELSE CeilDiv(now - p.fechaPrestamo, TicksPorDia)

DiasVencido(p) ==
  IF ~EstaVencido(p) THEN 0 ELSE CeilDiv(now - p.vencimiento, TicksPorDia)

CalcularMulta(p) == DiasVencido(p) * MULTA_POR_DIA

DiasRestantes(p) == CeilDiv(p.vencimiento - now, TicksPorDia)

GetEstado(p) ==
  IF DiasRestantes(p) < 0 THEN "vencido"
  ELSE IF DiasRestantes(p) <= DIAS_POR_VENCER THEN "por_vencer"
  ELSE "vigente"

\* A slip: the days are added to today instead of to the due date.
ExtenderDesdeHoy(p, dias) ==
  [p EXCEPT !.vencimiento = now + dias * TicksPorDia]

ExtenderPrestamo(p, dias) ==
  [p EXCEPT !.vencimiento = p.vencimiento + dias * TicksPorDia]

(* -------------------------------- Libro ------------------------------- *)

SocioTieneReserva(l, s) == s \in Rango(reservas[l])

\* A slip: push without the includes() test.
AgregarReservaSinVerificar(q, s) == Append(q, s)

\* A slip: unshift instead of push.
AgregarReservaAlFrente(q, s) == IF s \notin Rango(q) THEN <<s>> \o q ELSE q

AgregarReserva(q, s) == IF s \notin Rango(q) THEN Append(q, s) ELSE q

\* A slip: an empty queue yields a default member id instead of undefined.
ObtenerProximaReservaPorDefecto(l) ==
  IF reservas[l] = <<>> THEN 1 ELSE Head(reservas[l])

ObtenerProximaReserva(l) ==
  IF reservas[l] = <<>> THEN Undefined ELSE Head(reservas[l])

\* A slip: pop instead of shift.
QuitarUltimaReserva(q) == IF q = <<>> THEN q ELSE SubSeq(q, 1, Len(q) - 1)

\* Array.prototype.shift
QuitarProximaReserva(q) == IF q = <<>> THEN q ELSE Tail(q)

TieneReservas(l) == Len(reservas[l]) > 0

\* A slip: only the head of the queue can cancel.
CancelarSoloCabeza(q, s) == IF q # <<>> /\ Head(q) = s THEN Tail(q) ELSE q

CancelarReservaSocio(q, s) ==
  IF IndexOf(q, s) > 0 THEN Splice(q, IndexOf(q, s)) ELSE q

(* -------------------------------- Socio ------------------------------- *)

\* The index of the member's first loan of this copy; 0 when there is none.
TienePrestadoLibro(s, l) ==
  IF \E i \in 1..Len(prestamos[s]) : prestamos[s][i].libro = l
  THEN CHOOSE i \in 1..Len(prestamos[s]) :
         /\ prestamos[s][i].libro = l
         /\ \A j \in 1..(i-1) : prestamos[s][j].libro # l
  ELSE 0

RECURSIVE SumaMultas(_)
SumaMultas(ps) ==
  IF ps = <<>> THEN 0
  ELSE (IF EstaVencido(Head(ps)) THEN CalcularMulta(Head(ps)) ELSE 0)
       + SumaMultas(Tail(ps))

\* A slip: the sum starts at 0 instead of the stored balance.
CalcularSoloVencidos(s) == SumaMultas(prestamos[s])

CalcularMultasPendientes(s) == multasPendientes[s] + SumaMultas(prestamos[s])

\* A slip: only the stored balance is looked at.
PuedeRetirarSoloSaldo(s) == multasPendientes[s] = 0

PuedeRetirarLibros(s) == CalcularMultasPendientes(s) = 0

(* ------------------------------ Biblioteca ---------------------------- *)

BuscarSocio(id) == id \in socios

BuscarLibro(isbn) == isbn \in inventario

\* A slip: availability is never checked.
LibroSiempreDisponible(l) == TRUE

LibroEstaDisponible(l) == ~ \E s \in socios : TienePrestadoLibro(s, l) > 0

\* JavaScript truthiness of a number | undefined.
Truthy(x) == x # Undefined /\ x # 0

\* One created notification: its type, its priority, what the message is about
\* (motivo) and the number the message text carries (dato).
Notif(tipo, prioridad, motivo, dato) ==
  [tipo |-> tipo, prioridad |-> prioridad, motivo |-> motivo, dato |-> dato]

SinNotificaciones == [s \in IdsSocio |-> <<>>]

\* Socio.agregarNotificacion / GestorNotificaciones.crearNotificacion
CrearNotificacion(e, s, n) == [e EXCEPT ![s] = Append(@, n)]

Ult(op, s, l, res) == [op |-> op, socio |-> s, libro |-> l, res |-> res]

\* Every catalogued copy is by the same author.
AutorDe(isbn) == "autor"

Init ==
  /\ now = 0
  /\ inventario = {}
  /\ socios = {}
  /\ reservas = [l \in Isbns |-> <<>>]
  /\ prestamos = [s \in IdsSocio |-> <<>>]
  /\ multasPendientes = [s \in IdsSocio |-> 0]
  /\ historialLectura = [s \in IdsSocio |-> <<>>]
  /\ eventos = <<>>
  /\ emitidas = SinNotificaciones
  /\ ult = Ult("init", Undefined, "", Ok)

\* A thrown Error: nothing was assigned before the throw.
Rechazo(op, s, l, err) ==
  /\ ult' = Ult(op, s, l, err)
  /\ emitidas' = SinNotificaciones
  /\ UNCHANGED core

(* ---- catalogue and registration ---- *)

\* Socio.getAutoresFavoritos().has(autor)
LeyoAutor(s, autor) ==
  \E i \in 1..Len(historialLectura[s]) : AutorDe(historialLectura[s][i]) = autor

NotificarNuevoLibroAutor(isbn) ==
  [s \in IdsSocio |->
     IF s \in socios /\ LeyoAutor(s, AutorDe(isbn))
     THEN <<Notif("nuevo_libro_autor_favorito", "media", "nuevo_libro", 0)>>
     ELSE <<>>]

AgregarLibro(isbn) ==
  IF BuscarLibro(isbn) THEN Rechazo("agregarLibro", Undefined, isbn, Duplicate)
  ELSE /\ inventario' = inventario \cup {isbn}
       /\ emitidas' = NotificarNuevoLibroAutor(isbn)
       /\ ult' = Ult("agregarLibro", Undefined, isbn, Ok)
       /\ UNCHANGED <<eventos, now, socios, reservas, prestamos, multasPendientes,
                      historialLectura>>

RegistrarSocio(id) ==
  IF BuscarSocio(id) THEN Rechazo("registrarSocio", id, "", Duplicate)
  ELSE /\ socios' = socios \cup {id}
       /\ emitidas' = SinNotificaciones
       /\ ult' = Ult("registrarSocio", id, "", Ok)
       /\ UNCHANGED <<eventos, now, inventario, reservas, prestamos, multasPendientes,
                      historialLectura>>

(* ---- reservations ---- *)

\* A slip: reservarLibro does not test whether the copy is on loan.
ErrorReservarSinDisponibilidad(s, l) ==
  IF ~BuscarSocio(s) THEN NotFound
  ELSE IF ~BuscarLibro(l) THEN NotFound
  ELSE IF SocioTieneReserva(l, s) THEN AlreadyReserved
  ELSE Ok

\* A slip: the duplicate test comes before the availability test.
ErrorReservarReservaPrimero(s, l) ==
  IF ~BuscarSocio(s) THEN NotFound
  ELSE IF ~BuscarLibro(l) THEN NotFound
  ELSE IF SocioTieneReserva(l, s) THEN AlreadyReserved
  ELSE IF LibroEstaDisponible(l) THEN AlreadyAvailable
  ELSE Ok

ErrorReservarLibro(s, l) ==
  IF ~BuscarSocio(s) THEN NotFound
  ELSE IF ~BuscarLibro(l) THEN NotFound
  ELSE IF LibroEstaDisponible(l) THEN AlreadyAvailable
  ELSE IF SocioTieneReserva(l, s) THEN AlreadyReserved
  ELSE Ok

ReservarLibro(s, l) ==
  IF ErrorReservarLibro(s, l) # Ok
  THEN Rechazo("reservarLibro", s, l, ErrorReservarLibro(s, l))
  ELSE /\ reservas' = [reservas EXCEPT ![l] = AgregarReserva(@, s)]
       /\ emitidas' = CrearNotificacion(SinNotificaciones, s,
                        Notif("reserva_disponible", "media", "reserva",
                              Len(AgregarReserva(reservas[l], s))))
       /\ ult' = Ult("reservarLibro", s, l, Ok)
       /\ UNCHANGED <<eventos, now, inventario, socios, prestamos, multasPendientes,
                      historialLectura>>

ErrorCancelarReserva(s, l) == IF ~BuscarLibro(l) THEN NotFound ELSE Ok

CancelarReserva(s, l) ==
  IF ErrorCancelarReserva(s, l) # Ok
  THEN Rechazo("cancelarReserva", s, l, ErrorCancelarReserva(s, l))
  ELSE /\ reservas' = [reservas EXCEPT ![l] = CancelarReservaSocio(@, s)]
       /\ emitidas' =
            IF IndexOf(reservas[l], s) > 0 /\ BuscarSocio(s)
            THEN CrearNotificacion(SinNotificaciones, s,
                   Notif("reserva_disponible", "baja", "cancelacion", 0))
            ELSE SinNotificaciones
       /\ ult' = Ult("cancelarReserva", s, l, Ok)
       /\ UNCHANGED <<eventos, now, inventario, socios, prestamos, multasPendientes,
                      historialLectura>>

(* ---- loans and returns ---- *)

\* A slip: || instead of ??, so that a duration of 0 also takes the default.
DuracionFinalFalsy(d) == IF d = Undefined \/ d = 0 THEN DURACION_DEFAULT ELSE d

\* duracion ?? this.DURACION_DEFAULT
DuracionFinal(d) == IF d = Undefined THEN DURACION_DEFAULT ELSE d

\* A slip: the balance is never checked.
SocioRetirarSinVerificar(s) == Ok

\* A slip: >= instead of >.
SocioRetirarMayorIgual(s) ==
  IF multasPendientes[s] >= 0 THEN OutstandingFines ELSE Ok

\* Socio.retirar: the check made before the loan is created.
ErrorSocioRetirar(s) == IF multasPendientes[s] > 0 THEN OutstandingFines ELSE Ok

\* A slip: a free copy with a queue is lent only to the head of the queue.
ErrorRetirarConPrioridad(s, l) ==
  IF ~BuscarSocio(s) THEN NotFound
  ELSE IF ~BuscarLibro(l) THEN NotFound
  ELSE IF ~LibroEstaDisponible(l) THEN Unavailable
  ELSE IF TieneReservas(l) /\ ObtenerProximaReserva(l) # s THEN Unavailable
  ELSE ErrorSocioRetirar(s)

\* A slip: the member's balance is looked at before the copy's availability.
ErrorRetirarMultaPrimero(s, l) ==
  IF ~BuscarSocio(s) THEN NotFound
  ELSE IF ~BuscarLibro(l) THEN NotFound
  ELSE IF ErrorSocioRetirar(s) # Ok THEN ErrorSocioRetirar(s)
  ELSE IF ~LibroEstaDisponible(l) THEN Unavailable
  ELSE Ok

ErrorRetirarLibro(s, l) ==
  IF ~BuscarSocio(s) THEN NotFound
  ELSE IF ~BuscarLibro(l) THEN NotFound
  ELSE IF ~LibroEstaDisponible(l) THEN Unavailable
  ELSE ErrorSocioRetirar(s)

NuevoPrestamo(l, d) ==
  [libro |-> l, vencimiento |-> now + DuracionFinal(d) * TicksPorDia,
   fechaPrestamo |-> now]

\* A slip: a borrower who was queued takes the head of the queue out, instead
\* of their own reservation.
RetirarLibroOkQuitaCabeza(s, l, d) ==
  /\ prestamos' = [prestamos EXCEPT ![s] = Append(@, NuevoPrestamo(l, d))]
  /\ reservas' = [reservas EXCEPT ![l] =
       IF SocioTieneReserva(l, s) THEN QuitarProximaReserva(@) ELSE @]
  /\ emitidas' = CrearNotificacion(SinNotificaciones, s,
                   Notif("renovacion_disponible", "baja", "retiro",
                         NuevoPrestamo(l, d).vencimiento))
  /\ ult' = Ult("retirarLibro", s, l, Ok)
  /\ UNCHANGED <<eventos, now, inventario, socios, multasPendientes, historialLectura>>

\* socio.retirar succeeded: the loan is stored, then the member's own
\* reservation of the copy, if any, is removed.
RetirarLibroOk(s, l, d) ==
  /\ prestamos' = [prestamos EXCEPT ![s] = Append(@, NuevoPrestamo(l, d))]
  /\ reservas' = [reservas EXCEPT ![l] =
       IF SocioTieneReserva(l, s) THEN CancelarReservaSocio(@, s) ELSE @]
  /\ emitidas' = CrearNotificacion(SinNotificaciones, s,
                   Notif("renovacion_disponible", "baja", "retiro",
                         NuevoPrestamo(l, d).vencimiento))
  /\ ult' = Ult("retirarLibro", s, l, Ok)
  /\ UNCHANGED <<eventos, now, inventario, socios, multasPendientes, historialLectura>>

\* A slip: the reservation is removed before socio.retirar has accepted the loan.
RetirarLibroQuitaReservaAntes(s, l, d) ==
  IF ErrorRetirarLibro(s, l) \in {NotFound, Unavailable}
  THEN Rechazo("retirarLibro", s, l, ErrorRetirarLibro(s, l))
  ELSE IF ErrorSocioRetirar(s) # Ok
  THEN /\ reservas' = [reservas EXCEPT ![l] = CancelarReservaSocio(@, s)]
       /\ emitidas' = SinNotificaciones
       /\ ult' = Ult("retirarLibro", s, l, ErrorSocioRetirar(s))
       /\ UNCHANGED <<eventos, now, inventario, socios, prestamos, multasPendientes,
                      historialLectura>>
  ELSE RetirarLibroOk(s, l, d)

RetirarLibro(s, l, d) ==
  IF ErrorRetirarLibro(s, l) # Ok
  THEN Rechazo("retirarLibro", s, l, ErrorRetirarLibro(s, l))
  ELSE RetirarLibroOk(s, l, d)

\* Socio.devolver: the check made before the loan is removed.
ErrorSocioDevolver(s, l) == IF TienePrestadoLibro(s, l) = 0 THEN NotHeld ELSE Ok

ErrorDevolverLibro(s, l) ==
  IF ~BuscarSocio(s) THEN NotFound
  ELSE IF ~BuscarLibro(l) THEN NotFound
  ELSE ErrorSocioDevolver(s, l)

\* A slip: the member's first loan is taken instead of the loan of the copy.
PrestamoDevueltoPrimero(s, l) == prestamos[s][1]

\* The loan Socio.devolver removes and returns.
PrestamoDevuelto(s, l) == prestamos[s][TienePrestadoLibro(s, l)]

\* devolverLibro's hand-off: the queue head is notified and removed.
NotificaProximo(l) ==
  /\ Truthy(ObtenerProximaReserva(l))
  /\ BuscarSocio(ObtenerProximaReserva(l))

\* A slip: Socio.devolver notifies a fine on every return, overdue or not.
NotificacionesDevolverSiempre(s, l) ==
  CrearNotificacion(SinNotificaciones, s,
    Notif("multa_pendiente", "alta", "multa",
          CalcularMulta(PrestamoDevuelto(s, l))))

\* What Socio.devolver emits to the returning member.
NotificacionesDevolver(s, l) ==
  IF EstaVencido(PrestamoDevuelto(s, l))
  THEN CrearNotificacion(SinNotificaciones, s,
         Notif("multa_pendiente", "alta", "multa",
               CalcularMulta(PrestamoDevuelto(s, l))))
  ELSE SinNotificaciones

\* A slip: an overdue return adds one day's fine, however late the return is.
DevolverLibroMultaPlana(s, l) ==
  IF ErrorDevolverLibro(s, l) # Ok
  THEN Rechazo("devolverLibro", s, l, ErrorDevolverLibro(s, l))
  ELSE /\ prestamos' = [prestamos EXCEPT ![s] = Splice(@, TienePrestadoLibro(s, l))]
       /\ historialLectura' = [historialLectura EXCEPT ![s] =
            IF l \in Rango(@) THEN @ ELSE Append(@, l)]
       /\ multasPendientes' = [multasPendientes EXCEPT ![s] =
            IF EstaVencido(PrestamoDevuelto(s, l)) THEN @ + MULTA_POR_DIA ELSE @]
       /\ reservas' = [reservas EXCEPT ![l] =
            IF NotificaProximo(l) THEN QuitarProximaReserva(@) ELSE @]
       /\ emitidas' =
            IF NotificaProximo(l)
            THEN CrearNotificacion(NotificacionesDevolver(s, l),
                   ObtenerProximaReserva(l),
                   Notif("reserva_disponible", "alta", "disponible", 0))
            ELSE NotificacionesDevolver(s, l)
       /\ ult' = Ult("devolverLibro", s, l, Ok)
       /\ UNCHANGED <<eventos, now, inventario, socios>>

\* A slip: Socio.devolver returns quietly, instead of throwing, when the member
\* does not hold the copy, and devolverLibro goes on to the hand-off.
DevolverLibroSinVerificar(s, l) ==
  IF ErrorDevolverLibro(s, l) = NotFound
  THEN Rechazo("devolverLibro", s, l, NotFound)
  ELSE /\ prestamos' = [prestamos EXCEPT ![s] =
            IF TienePrestadoLibro(s, l) = 0 THEN @
            ELSE Splice(@, TienePrestadoLibro(s, l))]
       /\ historialLectura' = [historialLectura EXCEPT ![s] =
            IF TienePrestadoLibro(s, l) = 0 \/ l \in Rango(@) THEN @
            ELSE Append(@, l)]
       /\ multasPendientes' = [multasPendientes EXCEPT ![s] =
            IF TienePrestadoLibro(s, l) > 0 /\ EstaVencido(PrestamoDevuelto(s, l))
            THEN @ + CalcularMulta(PrestamoDevuelto(s, l)) ELSE @]
       /\ reservas' = [reservas EXCEPT ![l] =
            IF NotificaProximo(l) THEN QuitarProximaReserva(@) ELSE @]
       /\ emitidas' =
            IF NotificaProximo(l)
            THEN CrearNotificacion(
                   IF TienePrestadoLibro(s, l) = 0 THEN SinNotificaciones
                   ELSE NotificacionesDevolver(s, l),
                   ObtenerProximaReserva(l),
                   Notif("reserva_disponible", "alta", "disponible", 0))
            ELSE IF TienePrestadoLibro(s, l) = 0 THEN SinNotificaciones
            ELSE NotificacionesDevolver(s, l)
       /\ ult' = Ult("devolverLibro", s, l, Ok)
       /\ UNCHANGED <<eventos, now, inventario, socios>>

DevolverLibro(s, l) ==
  IF ErrorDevolverLibro(s, l) # Ok
  THEN Rechazo("devolverLibro", s, l, ErrorDevolverLibro(s, l))
  ELSE /\ prestamos' = [prestamos EXCEPT ![s] = Splice(@, TienePrestadoLibro(s, l))]
       /\ historialLectura' = [historialLectura EXCEPT ![s] =
            IF l \in Rango(@) THEN @ ELSE Append(@, l)]
       /\ multasPendientes' = [multasPendientes EXCEPT ![s] =
            IF EstaVencido(PrestamoDevuelto(s, l))
            THEN @ + CalcularMulta(PrestamoDevuelto(s, l)) ELSE @]
       /\ reservas' = [reservas EXCEPT ![l] =
            IF NotificaProximo(l) THEN QuitarProximaReserva(@) ELSE @]
       /\ emitidas' =
            IF NotificaProximo(l)
            THEN CrearNotificacion(NotificacionesDevolver(s, l),
                   ObtenerProximaReserva(l),
                   Notif("reserva_disponible", "alta", "disponible", 0))
            ELSE NotificacionesDevolver(s, l)
       /\ ult' = Ult("devolverLibro", s, l, Ok)
       /\ UNCHANGED <<eventos, now, inventario, socios>>

(* ---- renewal ---- *)

\* A slip: extenderPrestamo does not test the sign of the days.
ErrorSocioRenovarSinSigno(s, l, dias) ==
  IF ~PuedeRetirarLibros(s) THEN OutstandingFines
  ELSE IF TienePrestadoLibro(s, l) = 0 THEN NotHeld
  ELSE IF EstaVencido(prestamos[s][TienePrestadoLibro(s, l)]) THEN MustReturnFirst
  ELSE Ok

\* Socio.renovarPrestamo and Prestamo.extenderPrestamo: the checks, in order.
ErrorSocioRenovar(s, l, dias) ==
  IF ~PuedeRetirarLibros(s) THEN OutstandingFines
  ELSE IF TienePrestadoLibro(s, l) = 0 THEN NotHeld
  ELSE IF EstaVencido(prestamos[s][TienePrestadoLibro(s, l)]) THEN MustReturnFirst
  ELSE IF dias <= 0 THEN InvalidArgument
  ELSE Ok

\* A slip: the member's own checks run before the reservation check.
ErrorRenovarSocioPrimero(s, l, d) ==
  IF ~BuscarSocio(s) \/ ~BuscarLibro(l) THEN NotFound
  ELSE IF ErrorSocioRenovar(s, l, DuracionFinal(d)) # Ok
  THEN ErrorSocioRenovar(s, l, DuracionFinal(d))
  ELSE IF TieneReservas(l) THEN ReservationsPending
  ELSE Ok

ErrorRenovarPrestamo(s, l, d) ==
  IF ~BuscarSocio(s) \/ ~BuscarLibro(l) THEN NotFound
  ELSE IF TieneReservas(l) THEN ReservationsPending
  ELSE ErrorSocioRenovar(s, l, DuracionFinal(d))

PrestamoRenovado(s, l, d) ==
  ExtenderPrestamo(prestamos[s][TienePrestadoLibro(s, l)], DuracionFinal(d))

RenovarPrestamo(s, l, d) ==
  IF ErrorRenovarPrestamo(s, l, d) # Ok
  THEN Rechazo("renovarPrestamo", s, l, ErrorRenovarPrestamo(s, l, d))
  ELSE /\ PrestamoRenovado(s, l, d).vencimiento <= MaxVenc
       /\ prestamos' = [prestamos EXCEPT ![s][TienePrestadoLibro(s, l)] =
                          PrestamoRenovado(s, l, d)]
       /\ emitidas' = CrearNotificacion(SinNotificaciones, s,
                        Notif("renovacion_disponible", "baja", "renovacion",
                              PrestamoRenovado(s, l, d).vencimiento))
       /\ ult' = Ult("renovarPrestamo", s, l, Ok)
       /\ UNCHANGED <<eventos, now, inventario, socios, reservas, multasPendientes,
                      historialLectura>>

(* ---- fines ---- *)

ErrorProcesarPagoMulta(s, monto) ==
  IF ~BuscarSocio(s) THEN NotFound
  ELSE IF monto <= 0 THEN InvalidArgument
  ELSE Ok

\* A slip: the subtraction without Math.max.
PagarMultaSinPiso(saldo, monto) == saldo - monto

\* Math.max(0, multasPendientes - monto)
PagarMulta(saldo, monto) == IF saldo - monto > 0 THEN saldo - monto ELSE 0

ProcesarPagoMulta(s, monto) ==
  IF ErrorProcesarPagoMulta(s, monto) # Ok
  THEN Rechazo("procesarPagoMulta", s, "", ErrorProcesarPagoMulta(s, monto))
  ELSE /\ multasPendientes' = [multasPendientes EXCEPT ![s] = PagarMulta(@, monto)]
       /\ emitidas' =
            IF PagarMulta(multasPendientes[s], monto) = 0 /\ multasPendientes[s] > 0
            THEN CrearNotificacion(SinNotificaciones, s,
                   Notif("multa_pendiente", "media", "pagada", 0))
            ELSE SinNotificaciones
       /\ ult' = Ult("procesarPagoMulta", s, "", Ok)
       /\ UNCHANGED <<eventos, now, inventario, socios, reservas, prestamos, historialLectura>>

(* ---- queries ---- *)

\* A call of socio.calcularMultasPendientes(): it assigns nothing.
ConsultarMultasPendientes(s) ==
  /\ BuscarSocio(s)
  /\ ult' = Ult("calcularMultasPendientes", s, "", Ok)
  /\ emitidas' = SinNotificaciones
  /\ UNCHANGED core

\* A call of socio.puedeRetirarLibros(): it assigns nothing.
ConsultarPuedeRetirar(s) ==
  /\ BuscarSocio(s)
  /\ ult' = Ult("puedeRetirarLibros", s, "", Ok)
  /\ emitidas' = SinNotificaciones
  /\ UNCHANGED core

(* ---- events ---- *)

\* EventoBiblioteca.agregarParticipante: the checks, in order.
ErrorAgregarParticipante(ev, s) ==
  IF s \in Rango(ev.participantes) THEN AlreadyEnrolled
  ELSE IF Truthy(ev.capacidadMaxima)
          /\ Len(ev.participantes) >= ev.capacidadMaxima THEN Full
  ELSE Ok

AgregarParticipante(ev, s) == [ev EXCEPT !.participantes = Append(@, s)]

QuitarParticipante(ev, s) ==
  [ev EXCEPT !.participantes =
     IF IndexOf(@, s) > 0 THEN Splice(@, IndexOf(@, s)) ELSE @]

TieneCuposDisponibles(ev) ==
  IF ~Truthy(ev.capacidadMaxima) THEN TRUE
  ELSE Len(ev.participantes) < ev.capacidadMaxima

BuscarEvento(e) == e \in DOMAIN eventos

CrearEvento(e, capacidadMaxima) ==
  IF BuscarEvento(e) THEN Rechazo("crearEvento", Undefined, "", Duplicate)
  ELSE /\ eventos' = eventos @@ (e :> [capacidadMaxima |-> capacidadMaxima,
                                       participantes |-> <<>>])
       /\ emitidas' = SinNotificaciones
       /\ ult' = Ult("crearEvento", Undefined, "", Ok)
       /\ UNCHANGED <<now, inventario, socios, reservas, prestamos,
                      multasPendientes, historialLectura>>

ErrorInscribirSocioAEvento(s, e) ==
  IF ~BuscarSocio(s) THEN NotFound
  ELSE IF ~BuscarEvento(e) THEN NotFound
  ELSE ErrorAgregarParticipante(eventos[e], s)

InscribirSocioAEvento(s, e) ==
  IF ErrorInscribirSocioAEvento(s, e) # Ok
  THEN Rechazo("inscribirSocioAEvento", s, "", ErrorInscribirSocioAEvento(s, e))
  ELSE /\ eventos' = [eventos EXCEPT ![e] = AgregarParticipante(@, s)]
       /\ emitidas' = CrearNotificacion(SinNotificaciones, s,
                        Notif("evento_proximo", "media", "inscripcion", e))
       /\ ult' = Ult("inscribirSocioAEvento", s, "", Ok)
       /\ UNCHANGED <<now, inventario, socios, reservas, prestamos,
                      multasPendientes, historialLectura>>

DesinscribirSocioDeEvento(s, e) ==
  IF ~BuscarEvento(e) THEN Rechazo("desinscribirSocioDeEvento", s, "", NotFound)
  ELSE /\ eventos' = [eventos EXCEPT ![e] = QuitarParticipante(@, s)]
       /\ emitidas' =
            IF s \in Rango(eventos[e].participantes) /\ BuscarSocio(s)
            THEN CrearNotificacion(SinNotificaciones, s,
                   Notif("evento_proximo", "baja", "desinscripcion", e))
            ELSE SinNotificaciones
       /\ ult' = Ult("desinscribirSocioDeEvento", s, "", Ok)
       /\ UNCHANGED <<now, inventario, socios, reservas, prestamos,
                      multasPendientes, historialLectura>>

(* ---- the clock ---- *)

\* A slip: each tick adds the live fines to the stored balances.
AvanzarRelojCobrando ==
  /\ now < MaxNow
  /\ now' = now + 1
  /\ multasPendientes' = [s \in IdsSocio |-> CalcularMultasPendientes(s)]
  /\ emitidas' = SinNotificaciones
  /\ ult' = Ult("reloj", Undefined, "", Ok)
  /\ UNCHANGED <<eventos, inventario, socios, reservas, prestamos, historialLectura>>

AvanzarReloj ==
  /\ now < MaxNow
  /\ now' = now + 1
  /\ emitidas' = SinNotificaciones
  /\ ult' = Ult("reloj", Undefined, "", Ok)
  /\ UNCHANGED <<eventos, inventario, socios, reservas, prestamos, multasPendientes,
                 historialLectura>>

(* ------------------------------ behaviours ---------------------------- *)

\* The coordinator operations, for members S, copies L, loan durations D and
\* renewal durations R.
Operaciones(S, L, D, R) ==
  \/ \E s \in S, l \in L : ReservarLibro(s, l)
  \/ \E s \in S, l \in L : CancelarReserva(s, l)
  \/ \E s \in S, l \in L, d \in D : RetirarLibro(s, l, d)
  \/ \E s \in S, l \in L : DevolverLibro(s, l)
  \/ \E s \in S, l \in L, d \in R : RenovarPrestamo(s, l, d)
  \/ \E s \in S, m \in Montos : ProcesarPagoMulta(s, m)

Alta(S, L) ==
  \/ \E isbn \in L : AgregarLibro(isbn)
  \/ \E id \in S : RegistrarSocio(id)

\* Two members (0 among them), one copy, every duration, the clock running.
Next ==
  \/ Alta(SociosBase, LibrosBase)
  \/ Operaciones(SociosBase, LibrosBase, Duraciones, Duraciones)
  \/ AvanzarReloj

Spec == Init /\ [][Next]_vars

\* Every member, one copy, default durations, within one instant: the queue.
NextCola ==
  \/ Alta(IdsSocio, LibrosBase)
  \/ Operaciones(IdsSocio, LibrosBase, {Undefined}, {Undefined})

SpecCola == Init /\ [][NextCola]_vars

\* Two members, two copies, default durations, within one instant: two queues.
NextDosColas ==
  \/ Alta(SociosBase, Isbns)
  \/ Operaciones(SociosBase, Isbns, {Undefined}, {Undefined})

SpecDosColas == Init /\ [][NextDosColas]_vars

\* Copy X, when free, is borrowed by some member, and when held, is returned.
RetiraX == \E s \in IdsSocio : RetirarLibro(s, "X", Undefined) /\ ult'.res = Ok

DevuelveX == \E s \in IdsSocio : DevolverLibro(s, "X") /\ ult'.res = Ok

\* The queue, with copy X borrowed whenever it stays free and returned whenever
\* it stays held.
SpecColaJusta ==
  Init /\ [][NextCola]_vars /\ WF_vars(RetiraX) /\ WF_vars(DevuelveX)

\* Every member and the events: creation, inscription and its undoing.
NextEventos ==
  \/ \E id \in IdsSocio : RegistrarSocio(id)
  \/ \E e \in IdsEvento : \E c \in Capacidades : CrearEvento(e, c)
  \/ \E s \in IdsSocio : \E e \in IdsEvento : InscribirSocioAEvento(s, e)
  \/ \E s \in IdsSocio : \E e \in IdsEvento : DesinscribirSocioDeEvento(s, e)

SpecEventos == Init /\ [][NextEventos]_vars

\* The member's queries.
Consultas(S) ==
  \/ \E s \in S : ConsultarMultasPendientes(s)
  \/ \E s \in S : ConsultarPuedeRetirar(s)

\* One member, two copies, the clock running, the queries called.
NextDosLibros ==
  \/ Alta(SociosUno, Isbns)
  \/ Operaciones(SociosUno, Isbns, DuracionesCortas, RenovacionesCortas)
  \/ Consultas(SociosUno)
  \/ AvanzarReloj

SpecDosLibros == Init /\ [][NextDosLibros]_vars

(* ------------------------------- claims ------------------------------- *)

\* The step is operation op (every operation records itself in ult), asked by
\* member ult'.socio for copy ult'.libro.
Paso(op) == ult'.op = op

\* The loans of copy l in member s's active set.
PrestamosDe(s, l) == {i \in 1..Len(prestamos[s]) : prestamos[s][i].libro = l}

\* The notifications of the last operation that hand a copy to a queued member.
Avisos(e, s) == {i \in 1..Len(e[s]) : e[s][i].motivo = "disponible"}

\* C1: every copy is in the active-loan set of at most one member, and no
\* member holds two loans of the same copy.
C1_UnSoloTenedor ==
  \A l \in Isbns :
    /\ Cardinality({s \in IdsSocio : PrestamosDe(s, l) # {}}) <= 1
    /\ \A s \in IdsSocio : Cardinality(PrestamosDe(s, l)) <= 1

\* C1 witness: a copy is held and a borrow of it has just been refused.
C1_Witness ==
  /\ ult.op = "retirarLibro" /\ ult.res = Unavailable
  /\ \E s \in IdsSocio : s # ult.socio /\ PrestamosDe(s, ult.libro) # {}

\* C2: a member id occurs at most once in a copy's queue, and agregarReserva
\* of a member already queued leaves the queue as it is.
C2_ColaSinRepetidos ==
  \A l \in Isbns :
    /\ \A i, j \in 1..Len(reservas[l]) : reservas[l][i] = reservas[l][j] => i = j
    /\ \A s \in Rango(reservas[l]) : AgregarReserva(reservas[l], s) = reservas[l]

\* C2 witness: two members are queued and a second reservation by one of them
\* has just been refused.
C2_Witness ==
  /\ ult.op = "reservarLibro" /\ ult.res = AlreadyReserved
  /\ Len(reservas[ult.libro]) >= 2
  /\ ult.socio \in Rango(reservas[ult.libro])

\* C3 (as claimed): a borrow of a free copy by a member whose fine projection
\* is positive is rejected with OutstandingFines and creates no loan.
C3_MultaProyectadaBloqueaRetiro ==
  [][(/\ Paso("retirarLibro")
      /\ BuscarSocio(ult'.socio) /\ BuscarLibro(ult'.libro)
      /\ CalcularMultasPendientes(ult'.socio) > 0
      /\ LibroEstaDisponible(ult'.libro))
     => (ult'.res = OutstandingFines /\ prestamos' = prestamos)]_vars

\* C4: while a member's fine projection is positive, every renewal the member
\* requests is rejected and no due date changes.
C4_MultaProyectadaBloqueaRenovacion ==
  [][(Paso("renovarPrestamo") /\ CalcularMultasPendientes(ult'.socio) > 0)
     => (ult'.res # Ok /\ prestamos' = prestamos)]_vars

\* C4 witness: a renewal has just been refused for fines to a member whose
\* stored balance is 0 and who holds an overdue loan and another loan.
C4_Witness ==
  /\ ult.op = "renovarPrestamo" /\ ult.res = OutstandingFines
  /\ multasPendientes[ult.socio] = 0
  /\ CalcularMultasPendientes(ult.socio) > 0
  /\ PrestamosDe(ult.socio, ult.libro) # {}
  /\ ~EstaVencido(prestamos[ult.socio][TienePrestadoLibro(ult.socio, ult.libro)])

C6_SinMultaNoSeRechaza ==
  [][((Paso("retirarLibro") \/ Paso("renovarPrestamo"))
      /\ CalcularMultasPendientes(ult'.socio) = 0)
     => ult'.res # OutstandingFines]_vars

\* C6 witness: a member without fines has just renewed a loan.
C6_Witness ==
  /\ ult.op = "renovarPrestamo" /\ ult.res = Ok
  /\ CalcularMultasPendientes(ult.socio) = 0

\* C7: a renewal for an existing member and copy is rejected with
\* ReservationsPending whenever the copy's queue is non-empty, and the due
\* dates are unchanged.
C7_ReservasBloqueanRenovacion ==
  [][(/\ Paso("renovarPrestamo")
      /\ BuscarSocio(ult'.socio) /\ BuscarLibro(ult'.libro)
      /\ TieneReservas(ult'.libro))
     => (ult'.res = ReservationsPending /\ prestamos' = prestamos)]_vars

\* C7 witness: the refused requester is the one queued and holds the copy
\* overdue, so has a positive fine projection as well.
C7_Witness ==
  /\ ult.op = "renovarPrestamo" /\ ult.res = ReservationsPending
  /\ ult.socio \in Rango(reservas[ult.libro])
  /\ CalcularMultasPendientes(ult.socio) > 0
  /\ PrestamosDe(ult.socio, ult.libro) # {}
  /\ EstaVencido(prestamos[ult.socio][TienePrestadoLibro(ult.socio, ult.libro)])

\* C8 (as claimed): after a successful return of a copy whose queue had head b,
\* b is out of the queue, b alone got exactly one hand-off notification, the
\* rest of the queue kept its order and the copy has no holder.
C8_Traspaso ==
  [][(/\ Paso("devolverLibro") /\ ult'.res = Ok
      /\ reservas[ult'.libro] # <<>>)
     => (/\ reservas'[ult'.libro] = Tail(reservas[ult'.libro])
         /\ Cardinality(Avisos(emitidas', Head(reservas[ult'.libro]))) = 1
         /\ \A s \in IdsSocio \ {Head(reservas[ult'.libro])} :
              Avisos(emitidas', s) = {}
         /\ \A s \in IdsSocio : \A i \in 1..Len(prestamos'[s]) :
              prestamos'[s][i].libro # ult'.libro)]_vars

\* C9: a successful return of a copy whose queue is empty hands the copy to
\* nobody and leaves every queue unchanged.
C9_DevolucionSinCola ==
  [][(/\ Paso("devolverLibro") /\ ult'.res = Ok
      /\ reservas[ult'.libro] = <<>>)
     => (/\ reservas' = reservas
         /\ \A s \in IdsSocio : Avisos(emitidas', s) = {})]_vars

\* C9 witness: a return has just succeeded, nobody was notified of
\* availability and the copy's queue is empty.
C9_Witness ==
  /\ ult.op = "devolverLibro" /\ ult.res = Ok
  /\ reservas[ult.libro] = <<>>
  /\ \A s \in IdsSocio : Avisos(emitidas, s) = {}

OperacionesNucleo ==
  {"retirarLibro", "reservarLibro", "cancelarReserva", "devolverLibro",
   "renovarPrestamo", "procesarPagoMulta"}

\* C10: a rejected coordinator operation changes no loan, due date, balance,
\* read history or queue, and creates no notification.
C10_RechazoSinEfecto ==
  [][(ult'.op \in OperacionesNucleo /\ ult'.res # Ok)
       => (UNCHANGED core /\ emitidas' = SinNotificaciones)]_vars

\* C10 witness: a borrow has just been refused for fines while the requester's
\* reservation of the copy is still queued.
C10_Witness ==
  /\ ult.op = "retirarLibro" /\ ult.res = OutstandingFines
  /\ ult.socio \in Rango(reservas[ult.libro])

\* C11: no renewal request changes the due date of a loan that is past its due
\* date at the time of the request.
C11_VencidoNoSeRenueva ==
  [][Paso("renovarPrestamo")
     => \A s \in IdsSocio : \A i \in 1..Len(prestamos[s]) :
          now > prestamos[s][i].vencimiento
          => /\ i <= Len(prestamos'[s])
             /\ prestamos'[s][i] = prestamos[s][i]]_vars

\* C11 witness: the holder of an overdue loan, with no stored balance and no
\* queue on the copy, has just asked for a renewal and was refused.
C11_Witness ==
  /\ ult.op = "renovarPrestamo" /\ ult.res # Ok
  /\ reservas[ult.libro] = <<>>
  /\ multasPendientes[ult.socio] = 0
  /\ PrestamosDe(ult.socio, ult.libro) # {}
  /\ \A i \in PrestamosDe(ult.socio, ult.libro) :
       now > prestamos[ult.socio][i].vencimiento

\* C12 (as claimed): a renewal asked by the holder of an overdue loan of a copy
\* with an empty queue fails with MustReturnFirst.
C12_VencidoDaMustReturnFirst ==
  [][(/\ Paso("renovarPrestamo")
      /\ BuscarSocio(ult'.socio) /\ BuscarLibro(ult'.libro)
      /\ reservas[ult'.libro] = <<>>
      /\ PrestamosDe(ult'.socio, ult'.libro) # {}
      /\ \A i \in PrestamosDe(ult'.socio, ult'.libro) :
           now > prestamos[ult'.socio][i].vencimiento)
     => ult'.res = MustReturnFirst]_vars

C14_IdaYVuelta ==
  [][/\ (Paso("retirarLibro") /\ ult'.res = Ok)
        => multasPendientes' = multasPendientes
     /\ (/\ Paso("devolverLibro") /\ ult'.res = Ok
         /\ \A i \in PrestamosDe(ult'.socio, ult'.libro) :
              now <= prestamos[ult'.socio][i].vencimiento)
        => multasPendientes' = multasPendientes]_vars

\* C14 witness: a copy has just been returned in time, without a fine, by a
\* member who still holds another loan that is overdue.
C14_Witness ==
  /\ ult.op = "devolverLibro" /\ ult.res = Ok
  /\ multasPendientes[ult.socio] = 0
  /\ emitidas[ult.socio] = <<>>
  /\ \E i \in 1..Len(prestamos[ult.socio]) : EstaVencido(prestamos[ult.socio][i])

\* C15: diasVencido is 0 while the current instant is at or before the due
\* date; past the due date it is strictly positive and is the least whole
\* number of days covering the elapsed time (its ceiling); with the due date
\* fixed it never decreases as the clock advances.
C15_DiasVencido ==
  [][\A s \in socios : \A i \in 1..Len(prestamos[s]) :
       LET p == prestamos[s][i]
           transcurrido == now - p.vencimiento
           dias == DiasVencido(p)
       IN  /\ transcurrido <= 0 => dias = 0
           /\ transcurrido > 0 =>
                 /\ dias > 0
                 /\ dias * TicksPorDia >= transcurrido
                 /\ (dias - 1) * TicksPorDia < transcurrido
           /\ (Paso("reloj") /\ prestamos'[s][i].vencimiento = p.vencimiento)
                 => DiasVencido(prestamos[s][i])' >= dias]_vars

\* C15 witness: the clock has just advanced to a day and a half past the due
\* date of a loan, which counts as two days overdue.
C15_Witness ==
  /\ ult.op = "reloj"
  /\ \E s \in socios : \E i \in 1..Len(prestamos[s]) :
       /\ now - prestamos[s][i].vencimiento = 3
       /\ DiasVencido(prestamos[s][i]) = 2

\* Queue q without member s, the others in their order.
SinSocio(q, s) == SelectSeq(q, LAMBDA x : x # s)

\* C16: a successful borrow by member M of copy X with duration d appends
\* exactly one loan of X to M's loans, due at the current instant plus d days
\* (14 days when no duration is given), and takes M, if queued, out of X's
\* queue; the other queued members keep their order and every other loan and
\* queue is unchanged.
C16_EfectoRetirar ==
  [][\A d \in Duraciones :
       (/\ Paso("retirarLibro") /\ ult'.res = Ok
        /\ RetirarLibro(ult'.socio, ult'.libro, d))
       => /\ prestamos' = [prestamos EXCEPT ![ult'.socio] = Append(@,
               [libro |-> ult'.libro,
                vencimiento |-> now + (IF d = Undefined THEN 14 ELSE d) * TicksPorDia,
                fechaPrestamo |-> now])]
          /\ PrestamosDe(ult'.socio, ult'.libro) = {}
          /\ reservas' = [reservas EXCEPT ![ult'.libro] = SinSocio(@, ult'.socio)]]_vars

\* C16 witness: member 0 has just borrowed a free copy that had a queue,
\* without giving a duration; the loan is due in 14 days and member 1 is now
\* alone in the queue.
C16_Witness ==
  /\ ult.op = "retirarLibro" /\ ult.res = Ok /\ ult.socio = 0
  /\ reservas[ult.libro] = <<1>>
  /\ \E i \in PrestamosDe(0, ult.libro) :
       prestamos[0][i].vencimiento = now + 14 * TicksPorDia

\* C17: a borrow, by a registered member, of a catalogued copy is rejected with
\* Unavailable exactly when some member's active loans contain the copy,
\* whoever the requester is and whatever the requester owes.
C17_Unavailable ==
  [][(/\ Paso("retirarLibro")
      /\ BuscarSocio(ult'.socio) /\ BuscarLibro(ult'.libro))
     => (ult'.res = Unavailable
           <=> \E m \in IdsSocio : PrestamosDe(m, ult'.libro) # {})]_vars

\* C17 witness: a member with a stored balance has just been refused a held
\* copy as Unavailable.
C17_Witness ==
  /\ ult.op = "retirarLibro" /\ ult.res = Unavailable
  /\ multasPendientes[ult.socio] > 0
  /\ \E m \in IdsSocio \ {ult.socio} : PrestamosDe(m, ult.libro) # {}

\* Some member's active loans contain copy l.
TieneTenedor(l) == \E m \in IdsSocio : PrestamosDe(m, l) # {}

\* C18: a reservation by a registered member of a catalogued copy is rejected
\* with AlreadyAvailable when the copy has no holder, and with AlreadyReserved
\* when it has one and the member is already queued; either way no queue
\* changes and no notification is created.
C18_ReservaRechazada ==
  [][(/\ Paso("reservarLibro")
      /\ BuscarSocio(ult'.socio) /\ BuscarLibro(ult'.libro))
     => /\ ~TieneTenedor(ult'.libro)
           => /\ ult'.res = AlreadyAvailable
              /\ reservas' = reservas /\ emitidas' = SinNotificaciones
        /\ (TieneTenedor(ult'.libro)
            /\ ult'.socio \in Rango(reservas[ult'.libro]))
           => /\ ult'.res = AlreadyReserved
              /\ reservas' = reservas /\ emitidas' = SinNotificaciones]_vars

\* C18 witness: a member who is queued for a copy that is free has just been
\* told AlreadyAvailable.
C18_Witness ==
  /\ ult.op = "reservarLibro" /\ ult.res = AlreadyAvailable
  /\ ult.socio \in Rango(reservas[ult.libro])
  /\ ~TieneTenedor(ult.libro)

\* C19: a successful reservation puts the member at the tail: the old queue is
\* a prefix of the new one, which is one longer and ends with the member; the
\* member receives one notification, which reports the new queue length as
\* the position.
C19_ReservaAlFinal ==
  [][(Paso("reservarLibro") /\ ult'.res = Ok)
     => LET vieja == reservas[ult'.libro]
            nueva == reservas'[ult'.libro]
        IN  /\ Len(nueva) = Len(vieja) + 1
            /\ SubSeq(nueva, 1, Len(vieja)) = vieja
            /\ nueva[Len(nueva)] = ult'.socio
            /\ Len(emitidas'[ult'.socio]) = 1
            /\ emitidas'[ult'.socio][1].motivo = "reserva"
            /\ emitidas'[ult'.socio][1].dato = Len(nueva)
            /\ vieja = <<>> => emitidas'[ult'.socio][1].dato = 1]_vars

\* C19 witness: a member has just reserved behind two others and was told
\* position 3.
C19_Witness ==
  /\ ult.op = "reservarLibro" /\ ult.res = Ok
  /\ Len(reservas[ult.libro]) = 3
  /\ reservas[ult.libro][3] = ult.socio
  /\ emitidas[ult.socio][1].dato = 3

\* C20: cancelling a reservation of a catalogued copy raises no error and
\* leaves the copy's queue without the member, the others in their order,
\* wherever the member sat; when the member was not queued no queue changes
\* and no notification is created.
C20_CancelarDondeSea ==
  [][(Paso("cancelarReserva") /\ BuscarLibro(ult'.libro))
     => /\ ult'.res = Ok
        /\ reservas' = [reservas EXCEPT ![ult'.libro] = SinSocio(@, ult'.socio)]
        /\ ult'.socio \notin Rango(reservas[ult'.libro])
           => (reservas' = reservas /\ emitidas' = SinNotificaciones)]_vars

\* C20 witness: a queued member has just cancelled (and was notified of it);
\* two other members remain queued, the higher id ahead of the lower, so the
\* queue is not in id order.
C20_Witness ==
  /\ ult.op = "cancelarReserva" /\ ult.res = Ok
  /\ Len(reservas[ult.libro]) = 2
  /\ reservas[ult.libro][1] > reservas[ult.libro][2]
  /\ ult.socio \notin Rango(reservas[ult.libro])
  /\ Len(emitidas[ult.socio]) = 1

\* C21: while B is queued for copy X ahead of C, no return hands X to C or
\* takes C out of the queue, and B stays ahead of C for as long as both are
\* queued; B leaves the queue only by cancelling, by borrowing X or by being
\* handed X.  So B is handed X before C is.
C21_OrdenDeTraspaso ==
  [][\A l \in Isbns : \A i \in 1..Len(reservas[l]) : \A j \in (i+1)..Len(reservas[l]) :
       LET B == reservas[l][i]
           C == reservas[l][j]
       IN  /\ (Paso("devolverLibro") /\ ult'.libro = l)
              => (Avisos(emitidas', C) = {} /\ C \in Rango(reservas'[l]))
           /\ (B \in Rango(reservas'[l]) /\ C \in Rango(reservas'[l]))
              => IndexOf(reservas'[l], B) < IndexOf(reservas'[l], C)
           /\ B \notin Rango(reservas'[l])
              => /\ ult'.libro = l /\ ult'.res = Ok
                 /\ \/ Paso("cancelarReserva") /\ ult'.socio = B
                    \/ Paso("retirarLibro") /\ ult'.socio = B
                    \/ Paso("devolverLibro") /\ Avisos(emitidas', B) # {}]_vars

\* C21 witness: a return has just handed the copy to the head of the queue,
\* who left it, while another member is still queued.
C21_Witness ==
  /\ ult.op = "devolverLibro" /\ ult.res = Ok
  /\ reservas[ult.libro] # <<>>
  /\ \E b \in IdsSocio \ Rango(reservas[ult.libro]) : Avisos(emitidas, b) # {}

\* C22: a payment of amount <= 0 by a registered member is rejected with
\* InvalidArgument and leaves the balance unchanged; a payment of amount > 0
\* sets the member's stored balance to max(0, balance - amount) and no other
\* balance changes; no stored balance is ever negative.
C22_PagoDeMulta ==
  [][/\ \A m \in Montos :
          (/\ Paso("procesarPagoMulta") /\ BuscarSocio(ult'.socio)
           /\ ProcesarPagoMulta(ult'.socio, m))
          => /\ m <= 0 => (/\ ult'.res = InvalidArgument
                            /\ multasPendientes' = multasPendientes)
             /\ m > 0 =>
                  /\ ult'.res = Ok
                  /\ multasPendientes' = [multasPendientes EXCEPT ![ult'.socio] =
                       IF @ - m > 0 THEN @ - m ELSE 0]
     /\ \A s \in socios : multasPendientes'[s] >= 0]_vars

\* C22 witness: a member who owed a fine has just paid it off; the balance is
\* 0 and the member was told that every fine is paid.
C22_Witness ==
  /\ ult.op = "procesarPagoMulta" /\ ult.res = Ok
  /\ multasPendientes[ult.socio] = 0
  /\ \E i \in 1..Len(emitidas[ult.socio]) : emitidas[ult.socio][i].motivo = "pagada"

\* The whole days needed to cover e > 0 ticks.
DiasQueCubren(e) ==
  CHOOSE d \in 1..e : d * TicksPorDia >= e /\ (d - 1) * TicksPorDia < e

\* The sum, over the first n loans of member s that are past their due date,
\* of 50 per day overdue.
RECURSIVE MultaViva(_, _)
MultaViva(s, n) ==
  IF n = 0 THEN 0
  ELSE MultaViva(s, n - 1)
       + (IF now > prestamos[s][n].vencimiento
          THEN DiasQueCubren(now - prestamos[s][n].vencimiento) * 50 ELSE 0)

\* C23: for every member calcularMultasPendientes is the stored balance plus
\* 50 per day overdue of every active loan past its due date, and
\* puedeRetirarLibros is true exactly when that is 0; a call of either query
\* changes nothing.
C23_Proyeccion ==
  [][/\ \A s \in socios :
          /\ CalcularMultasPendientes(s) =
               multasPendientes[s] + MultaViva(s, Len(prestamos[s]))
          /\ PuedeRetirarLibros(s) <=>
               (multasPendientes[s] + MultaViva(s, Len(prestamos[s])) = 0)
     /\ (Paso("calcularMultasPendientes") \/ Paso("puedeRetirarLibros"))
          => UNCHANGED core]_vars

\* C23 witness: the projection has just been asked of a member who has a
\* stored balance and holds a loan a day and a half overdue.
C23_Witness ==
  /\ ult.op = "calcularMultasPendientes"
  /\ multasPendientes[ult.socio] > 0
  /\ \E i \in 1..Len(prestamos[ult.socio]) :
       now - prestamos[ult.socio][i].vencimiento = 3

\* C24 (as claimed): at every instant getEstado is 'vencido' exactly when the
\* current instant is past the due date; otherwise it is 'por_vencer' when the
\* due date is at most 3 days away and 'vigente' beyond that.
C24_EstadoSegunVencimiento ==
  \A s \in socios : \A i \in 1..Len(prestamos[s]) :
    LET p == prestamos[s][i]
    IN  GetEstado(p) =
          IF now > p.vencimiento THEN "vencido"
          ELSE IF p.vencimiento - now <= 3 * TicksPorDia THEN "por_vencer"
          ELSE "vigente"

\* C25 (as claimed): a borrow with a duration of 0 or fewer days, otherwise
\* acceptable (registered member without balance, catalogued free copy), is
\* rejected with InvalidArgument and creates no loan.
C25_DuracionNoPositiva ==
  [][\A d \in Duraciones \ {Undefined} :
       (/\ d <= 0
        /\ Paso("retirarLibro")
        /\ BuscarSocio(ult'.socio) /\ BuscarLibro(ult'.libro)
        /\ ~TieneTenedor(ult'.libro)
        /\ multasPendientes[ult'.socio] = 0
        /\ RetirarLibro(ult'.socio, ult'.libro, d))
       => (ult'.res = InvalidArgument /\ prestamos' = prestamos)]_vars

\* The index of member s's loan of copy l (s holds one).
IndicePrestamo(s, l) == CHOOSE i \in PrestamosDe(s, l) : TRUE

\* A renewal by s of l would be accepted for a positive number of days.
RenovacionAdmisible(s, l) ==
  /\ BuscarSocio(s) /\ BuscarLibro(l)
  /\ reservas[l] = <<>>
  /\ multasPendientes[s] = 0
  /\ \A i \in 1..Len(prestamos[s]) : now <= prestamos[s][i].vencimiento
  /\ PrestamosDe(s, l) # {}

\* C26: a successful renewal with dias > 0 (14 when none is given) moves the
\* due date of the member's loan of the copy forward by exactly dias days and
\* changes nothing else; with dias <= 0 the renewal is rejected, with
\* InvalidArgument when nothing else is wrong, and no due date changes.
C26_EfectoRenovar ==
  [][\A d \in Duraciones :
       (/\ Paso("renovarPrestamo")
        /\ RenovarPrestamo(ult'.socio, ult'.libro, d))
       => LET dias == IF d = Undefined THEN 14 ELSE d
              s == ult'.socio
              l == ult'.libro
          IN  /\ ult'.res = Ok
                 => /\ dias > 0
                    /\ prestamos' = [prestamos EXCEPT ![s][IndicePrestamo(s, l)] =
                         [libro |-> @.libro,
                          vencimiento |-> @.vencimiento + dias * TicksPorDia,
                          fechaPrestamo |-> @.fechaPrestamo]]
                    /\ UNCHANGED <<now, inventario, socios, reservas,
                                   multasPendientes, historialLectura>>
              /\ dias <= 0
                 => /\ ult'.res # Ok
                    /\ prestamos' = prestamos
                    /\ RenovacionAdmisible(s, l) => ult'.res = InvalidArgument]_vars

\* C26 witness: a renewal has just succeeded on a loan whose term is now 15
\* days: 1 day and 14 days, one of them the default.
C26_Witness ==
  /\ ult.op = "renovarPrestamo" /\ ult.res = Ok
  /\ \E i \in PrestamosDe(ult.socio, ult.libro) :
       prestamos[ult.socio][i].vencimiento - prestamos[ult.socio][i].fechaPrestamo
         = 15 * TicksPorDia

\* Sequence q has no repeated entry.
SinRepetidos(q) == \A i, j \in 1..Len(q) : q[i] = q[j] => i = j

\* C27: a successful return by member M of copy X removes exactly M's loan
\* of X from M's loans, leaves X in M's read history, and adds to M's stored
\* balance the loan's fine at that instant if the loan is overdue and
\* nothing otherwise; no read history ever holds a copy twice or loses an
\* entry.
C27_EfectoDevolver ==
  [][/\ (Paso("devolverLibro") /\ ult'.res = Ok)
        => LET s == ult'.socio
               l == ult'.libro
               i == IndicePrestamo(s, l)
               p == prestamos[s][i]
           IN  /\ PrestamosDe(s, l) = {i}
               /\ prestamos' = [prestamos EXCEPT ![s] =
                    SubSeq(@, 1, i - 1) \o SubSeq(@, i + 1, Len(@))]
               /\ l \in Rango(historialLectura'[s])
               /\ multasPendientes' = [multasPendientes EXCEPT ![s] = @ +
                    IF now > p.vencimiento
                    THEN DiasQueCubren(now - p.vencimiento) * 50 ELSE 0]
     /\ \A s \in IdsSocio :
          /\ SinRepetidos(historialLectura'[s])
          /\ Len(historialLectura'[s]) >= Len(historialLectura[s])
          /\ SubSeq(historialLectura'[s], 1, Len(historialLectura[s]))
               = historialLectura[s]]_vars

\* C27 witness: a member has just returned a copy overdue, the second entry
\* of the read history, while still holding a loan of the other copy; the fine
\* was added to the balance.
C27_Witness ==
  /\ ult.op = "devolverLibro" /\ ult.res = Ok
  /\ Len(prestamos[ult.socio]) = 1
  /\ prestamos[ult.socio][1].fechaPrestamo > 0
  /\ Len(historialLectura[ult.socio]) = 2
  /\ historialLectura[ult.socio][2] = ult.libro
  /\ multasPendientes[ult.socio] > 0
  /\ \E i \in 1..Len(emitidas[ult.socio]) : emitidas[ult.socio][i].motivo = "multa"

\* C28: a return asked by a registered member who has no loan of the
\* (catalogued) copy is rejected with NotHeld, whether the copy is free or
\* held by someone else; no loan, queue or balance changes.
C28_NotHeld ==
  [][(/\ Paso("devolverLibro")
      /\ BuscarSocio(ult'.socio) /\ BuscarLibro(ult'.libro)
      /\ PrestamosDe(ult'.socio, ult'.libro) = {})
     => /\ ult'.res = NotHeld
        /\ UNCHANGED <<prestamos, reservas, multasPendientes>>
        /\ emitidas' = SinNotificaciones]_vars

\* C28 witness: a member has just been refused the return of a copy that
\* another member holds and that has a queue.
C28_Witness ==
  /\ ult.op = "devolverLibro" /\ ult.res = NotHeld
  /\ \E m \in IdsSocio \ {ult.socio} : PrestamosDe(m, ult.libro) # {}
  /\ reservas[ult.libro] # <<>>

\* C29: a loan appears only by a successful borrow of its owner and
\* disappears only by a successful return of its owner; the due date of an
\* existing loan changes only by a successful renewal of its owner, and only
\* forward; every other step leaves all loans as they were.
C29_CicloDelPrestamo ==
  [][\A s \in IdsSocio :
       /\ Len(prestamos'[s]) > Len(prestamos[s])
          => Paso("retirarLibro") /\ ult'.res = Ok /\ ult'.socio = s
       /\ Len(prestamos'[s]) < Len(prestamos[s])
          => Paso("devolverLibro") /\ ult'.res = Ok /\ ult'.socio = s
       /\ (Len(prestamos'[s]) = Len(prestamos[s]) /\ prestamos'[s] # prestamos[s])
          => /\ Paso("renovarPrestamo") /\ ult'.res = Ok /\ ult'.socio = s
             /\ \A i \in 1..Len(prestamos[s]) :
                  /\ prestamos'[s][i].libro = prestamos[s][i].libro
                  /\ prestamos'[s][i].fechaPrestamo = prestamos[s][i].fechaPrestamo
                  /\ prestamos'[s][i].vencimiento >= prestamos[s][i].vencimiento
       /\ ult'.op \in {"reservarLibro", "cancelarReserva", "procesarPagoMulta", "reloj"}
          => prestamos'[s] = prestamos[s]]_vars

\* C29 witness: a payment has just been accepted from a member while another
\* member holds an overdue loan.
C29_Witness ==
  /\ ult.op = "procesarPagoMulta" /\ ult.res = Ok
  /\ \E m \in IdsSocio \ {ult.socio} : \E i \in 1..Len(prestamos[m]) :
       now > prestamos[m][i].vencimiento

\* C30: a clock advance changes no balance, loan, due date, read history or
\* queue.
C30_ElTiempoNoCambiaNada ==
  [][Paso("reloj")
     => /\ now' > now
        /\ UNCHANGED <<inventario, socios, reservas, prestamos,
                       multasPendientes, historialLectura>>]_vars

\* C30 witness: the clock has just advanced, at least a full day has passed
\* since instant 0, and a member holds an overdue loan whose fine is not in
\* the stored balance.
C30_Witness ==
  /\ ult.op = "reloj" /\ now >= TicksPorDia
  /\ \E s \in socios :
       /\ multasPendientes[s] = 0
       /\ CalcularMultasPendientes(s) > 0

\* The events that the notifications of sequence q tell of, in order.
Motivos(q) == [i \in 1..Len(q) |-> q[i].motivo]

\* <<motivo>> when b holds and nothing otherwise.
Si(b, motivo) == IF b THEN <<motivo>> ELSE <<>>

\* The events of the step just taken that concern member m, in the order in
\* which the operation produces them.
EventosDe(m) ==
  LET s == ult'.socio
      l == ult'.libro
  IN  IF ult'.res # Ok THEN <<>>
      ELSE CASE Paso("reservarLibro") -> Si(m = s, "reserva")
             [] Paso("cancelarReserva") ->
                  Si(m = s /\ m \in Rango(reservas[l]), "cancelacion")
             [] Paso("retirarLibro") -> Si(m = s, "retiro")
             [] Paso("devolverLibro") ->
                  Si(m = s /\ \E i \in PrestamosDe(s, l) :
                                now > prestamos[s][i].vencimiento, "multa")
                  \o Si(m \in Rango(reservas[l]) /\ m \notin Rango(reservas'[l]),
                        "disponible")
             [] Paso("procesarPagoMulta") ->
                  Si(m = s /\ multasPendientes[s] > 0 /\ multasPendientes'[s] = 0,
                     "pagada")
             [] Paso("renovarPrestamo") -> Si(m = s, "renovacion")

\* C31: every successful core event emits exactly one notification, to the
\* member concerned, and a rejected operation emits none: a reservation placed
\* (to the reserver), an existing reservation cancelled (to the canceller), a
\* loan created (to the borrower), a fine incurred by an overdue return (to the
\* returner), a payment that brings a positive stored balance to 0 (to the
\* payer), a renewal (to the renewer) and a hand-off (to the dequeued head).
C31_UnaNotificacionPorEvento ==
  [][ult'.op \in OperacionesNucleo =>
       \A m \in IdsSocio : Motivos(emitidas'[m]) = EventosDe(m)]_vars

\* C31 witness: an overdue return has just notified the returner of the fine
\* and another member, who is not queued, of the copy's availability.
C31_Witness ==
  /\ ult.op = "devolverLibro" /\ ult.res = Ok
  /\ Len(emitidas[ult.socio]) = 1
  /\ emitidas[ult.socio][1].motivo = "multa"
  /\ \E m \in IdsSocio \ (Rango(reservas[ult.libro]) \cup {ult.socio}) :
       /\ Len(emitidas[m]) = 1
       /\ Avisos(emitidas, m) # {}

\* Copy l is free while members are queued for it.
ColaSinPrestamo(l) == reservas[l] # <<>> /\ ~TieneTenedor(l)

\* C32 as stated: whenever a copy's reservation queue is non-empty, the copy is
\* on loan to some member.
C32_ColaSoloSiPrestado ==
  \A l \in Isbns : reservas[l] # <<>> => TieneTenedor(l)

\* C32, amended: a member joins a copy's queue only while the copy is on loan,
\* and a copy becomes free with members still queued only by a successful
\* return of that copy; so a non-empty queue belongs to a copy that is on loan
\* or has been returned since it was last borrowed.
C32_ColaDesdeElPrestamo ==
  [][\A l \in Isbns :
       /\ Len(reservas'[l]) > Len(reservas[l])
            => (TieneTenedor(l) /\ TieneTenedor(l)')
       /\ (ColaSinPrestamo(l)' /\ ~ColaSinPrestamo(l))
            => (Paso("devolverLibro") /\ ult'.libro = l /\ ult'.res = Ok
                /\ TieneTenedor(l))]_vars

\* C32 witness: a return has just handed the copy to the head of the queue and
\* left the copy free with another member still queued.
C32_Witness ==
  /\ ult.op = "devolverLibro" /\ ult.res = Ok
  /\ ColaSinPrestamo(ult.libro)
  /\ \E m \in IdsSocio \ Rango(reservas[ult.libro]) : Avisos(emitidas, m) # {}
  /\ 0 \notin Rango(reservas[ult.libro])

\* Member m has just left the queue of copy l by the hand-off, by cancelling or
\* by borrowing the copy.
Atendido(m, l) ==
  /\ m \notin Rango(reservas[l])
  /\ ult.libro = l /\ ult.res = Ok
  /\ \/ ult.op = "devolverLibro" /\ Avisos(emitidas, m) # {}
     \/ ult.op = "cancelarReserva" /\ ult.socio = m
     \/ ult.op = "retirarLibro" /\ ult.socio = m

\* C33: while copy X keeps being borrowed and returned, every registered
\* member, 0 included, who is queued for X is eventually notified of its
\* availability and removed from the queue, unless the member cancels or
\* borrows X first.
C33_TodosSonAtendidos ==
  \A m \in IdsSocio :
    (m \in socios /\ m \in Rango(reservas["X"])) ~> Atendido(m, "X")

\* C34: no member is at the same time the holder of a copy and a member of
\* that copy's reservation queue.
C34_TenedorFueraDeLaCola ==
  \A l \in Isbns : \A m \in IdsSocio :
    PrestamosDe(m, l) # {} => m \notin Rango(reservas[l])

\* C35: a successful return leaves the returning member's fine projection as
\* it was: calcularMultasPendientes just before the return equals
\* calcularMultasPendientes just after it, at the same instant.
C35_DevolverConservaLaProyeccion ==
  [][\A s \in IdsSocio :
       (Paso("devolverLibro") /\ ult'.socio = s /\ ult'.res = Ok)
         => /\ now' = now
            /\ CalcularMultasPendientes(s)' = CalcularMultasPendientes(s)]_vars

\* C35 witness: a return more than a day late has just moved its fine into the
\* stored balance, while the member still holds another loan past its due date.
C35_Witness ==
  /\ ult.op = "devolverLibro" /\ ult.res = Ok
  /\ \E i \in 1..Len(emitidas[ult.socio]) :
       /\ emitidas[ult.socio][i].motivo = "multa"
       /\ emitidas[ult.socio][i].dato > MULTA_POR_DIA
  /\ multasPendientes[ult.socio] > 0
  /\ CalcularMultasPendientes(ult.socio) > multasPendientes[ult.socio]

\* The members of queue q that are also in queue r, in q's order.
Comunes(q, r) == SelectSeq(q, LAMBDA x : x \in Rango(r))

\* C36: a member leaves a copy's queue only by their own cancelReservation for
\* that copy, by their own successful borrow of that copy, or by a successful
\* return of that copy while they are at the head; no other step removes a
\* queued member or changes the order of the members that stay queued, and a
\* failed operation changes no queue.
C36_SalidasDeLaCola ==
  [][\A l \in Isbns :
       /\ \A m \in Rango(reservas[l]) \ Rango(reservas'[l]) :
            /\ ult'.libro = l /\ ult'.res = Ok
            /\ \/ Paso("cancelarReserva") /\ ult'.socio = m
               \/ Paso("retirarLibro") /\ ult'.socio = m
                    /\ PrestamosDe(m, l)' # {}
               \/ Paso("devolverLibro") /\ Head(reservas[l]) = m
       /\ Comunes(reservas'[l], reservas[l]) = Comunes(reservas[l], reservas'[l])
       /\ (ult'.res # Ok \/ ult'.libro # l) => reservas'[l] = reservas[l]]_vars

\* C36 witness: a return has just handed the copy to a member, who is no longer
\* in its queue, while another member is still queued for it and the other
\* copy's queue is not empty.
C36_Witness ==
  /\ ult.op = "devolverLibro" /\ ult.res = Ok
  /\ reservas[ult.libro] # <<>>
  /\ \E m \in IdsSocio \ Rango(reservas[ult.libro]) : Avisos(emitidas, m) # {}
  /\ \A l \in Isbns : reservas[l] # <<>>

\* C37: the queue gives no priority: a borrow of a free copy by a registered
\* member who owes nothing is accepted whoever is queued and whoever was
\* notified last, and it leaves the queue as it was, but for the borrower's
\* own reservation.
C37_SinPrioridad ==
  [][\A s \in socios : \A l \in inventario :
       (/\ Paso("retirarLibro") /\ ult'.socio = s /\ ult'.libro = l
        /\ ~TieneTenedor(l)
        /\ multasPendientes[s] = 0 /\ MultaViva(s, Len(prestamos[s])) = 0)
         => /\ ult'.res = Ok
            /\ PrestamosDe(s, l)' # {}
            /\ s \notin Rango(reservas[l]) => reservas'[l] = reservas[l]
            /\ reservas'[l] = SinSocio(reservas[l], s)]_vars

\* C37 witness: a member has just borrowed the copy while another member, not
\* member 0, is queued for it.
C37_Witness ==
  /\ ult.op = "retirarLibro" /\ ult.res = Ok
  /\ PrestamosDe(ult.socio, ult.libro) # {}
  /\ reservas[ult.libro] # <<>>
  /\ 0 \notin Rango(reservas[ult.libro])
  /\ ult.socio \notin Rango(reservas[ult.libro])

\* C38: an event created with a maximum capacity n, 0 included, never holds
\* more than n participants nor the same member twice, and an inscription
\* rejected because the event is full or the member is already inscribed
\* changes neither the participants nor the member's notifications.
C38_CupoDelEvento ==
  [][/\ \A e \in DOMAIN eventos' :
          eventos'[e].capacidadMaxima # Undefined
            => /\ Len(eventos'[e].participantes) <= eventos'[e].capacidadMaxima
               /\ SinRepetidos(eventos'[e].participantes)
     /\ (Paso("inscribirSocioAEvento") /\ ult'.res \in {Full, AlreadyEnrolled})
          => (eventos' = eventos /\ emitidas' = SinNotificaciones)]_vars

=============================================================================
